---- MODULE Spec2Model ----
(***************************************************************************)
(* Model of the two Cognito provisioning scripts of 04-LearningPath:       *)
(*   m2m_cognito_setup.py   (create_m2m_pool and its __main__ block)       *)
(*   user_cognito_setup.py  (get_aws_region, create_spa_pool, __main__)    *)
(* The identity provider and the file system are the environment: every    *)
(* provider call and every file write has an outcome chosen by \E.         *)
(***************************************************************************)
EXTENDS Integers, Sequences, FiniteSets, TLC

VARIABLES
    \* ---- m2m_cognito_setup.py ----
    pcA,          \* position of the script
    callsA,       \* provider calls issued so far, in order, with their outcome
    files,        \* state of the four local files
    writes,       \* files opened for writing by this run, in order
    localsA,      \* pool_id, resource_server_id, client_id, client_secret, domain_name
    credentials,  \* the document dumped into m2m_credentials.json
    resultA,      \* value returned by create_m2m_pool
    raisedA,      \* exception that left create_m2m_pool, if any
    reportA,      \* the error line printed by the except clauses
    bannerA,      \* the banner printed by __main__
    \* ---- user_cognito_setup.py ----
    invocation,   \* "script": python user_cognito_setup.py; "call": create_spa_pool()
    env,          \* os.environ.get('AWS_REGION')
    session,      \* what boto3.Session().region_name gives
    region,       \* local of create_spa_pool
    warned,       \* the "No region configured" warning was printed
    pcB,          \* position of the script / function
    callsB,       \* provider calls issued so far, in order, with their outcome
    localsB,      \* pool_id, client_id, access_token_1, access_token_2
    resultB,      \* value returned by create_spa_pool
    raisedB,      \* exception that left create_spa_pool or the script
    logB          \* error lines printed by the except clauses

varsA == <<pcA, callsA, files, writes, localsA, credentials, resultA, raisedA,
           reportA, bannerA>>
varsB == <<invocation, env, session, region, warned, pcB, callsB, localsB,
           resultB, raisedB, logB>>
vars == <<varsA, varsB>>

\* ------------------------------------------------------------------ values

None == "None"
Unset == "unset"

\* create_m2m_pool / create_spa_pool has not returned; it returned None
NotReturned == [returned |-> FALSE]
Absent == [returned |-> TRUE, none |-> TRUE]

\* nothing was dumped into m2m_credentials.json
NoDocument == [dumped |-> FALSE]

\* m2m_cognito_setup.py:14-18
REGION == "us-west-2"
RESOURCE_SERVER_IDENTIFIER == "https://api.myapp.com"

\* Number of clock readings time.time() may give beyond the first.
MaxTick == 2

\* Clock readings: the first and the third share their last five digits.
Timestamps == {1700000000 + 50000 * k : k \in 0..MaxTick}

\* Error codes a botocore ClientError may carry.
ErrorCodes == {"InvalidParameterException", "UsernameExistsException",
               "LimitExceededException"}

\* Outcome of one provider call: success, a ClientError with a code, or any
\* other exception (transport error, malformed response).
Outcomes == {"ok", "Exception"} \cup ErrorCodes

\* Outcome of `with open(name, 'w') as f: json.dump(...)`.
WriteOutcomes == {"ok", "open_failed", "dump_failed"}

FileNames == <<"pool.json", "resource_server.json", "m2m_client.json",
               "m2m_credentials.json">>

PoolIds == {"us-west-2_p1", "us-west-2_p2"}
ClientIds == {"cid1"}
ClientSecrets == {"sec1", "sec2"}

\* str(int(time.time()))[-5:] for a ten-digit clock reading
Last5(t) == [i \in 1..5 |-> (t \div (10 ^ (5 - i))) % 10]

\* f"m2m-domain-{...}"
DomainName(t) == <<"m2m-domain-", Last5(t)>>

\* f"{RESOURCE_SERVER_IDENTIFIER}/read", ...
Scopes == << <<RESOURCE_SERVER_IDENTIFIER, "/read">>,
             <<RESOURCE_SERVER_IDENTIFIER, "/write">>,
             <<RESOURCE_SERVER_IDENTIFIER, "/admin">> >>

Call(op, user, out) == [op |-> op, user |-> user, out |-> out]

\* ------------------------------------------------- m2m_cognito_setup.py

\* user_cognito_setup.py is not running.
IdleB ==
    /\ invocation = "call" /\ env = None /\ session = None /\ region = Unset
    /\ warned = FALSE /\ pcB = "exit" /\ callsB = <<>>
    /\ localsB = <<>> /\ resultB = NotReturned /\ raisedB = None
    /\ logB = <<>>

InitA ==
    /\ IdleB
    /\ pcA = "main"
    /\ callsA = <<>>
    /\ files \in [{FileNames[i] : i \in 1..4} -> {"absent", "old"}]
    /\ writes = <<>>
    /\ localsA = [pool_id |-> Unset, resource_server_id |-> Unset,
                  client_id |-> Unset, client_secret |-> Unset,
                  domain_name |-> <<>>]
    /\ credentials = NoDocument
    /\ resultA = NotReturned
    /\ raisedA = None
    /\ reportA = <<>>
    /\ bannerA = None

\* except ClientError / except Exception of create_m2m_pool: print, return None
Handler(o) ==
    /\ reportA' = IF o \in ErrorCodes THEN <<"AWS Error", o>>
                                      ELSE <<"Unexpected error">>
    /\ resultA' = Absent
    /\ pcA' = "returned"

\* with open(name, 'w') as f: json.dump(...): the file after the statement
Written(name, w) ==
    CASE w = "ok" -> [files EXCEPT ![name] = "new"]
      [] w = "dump_failed" -> [files EXCEPT ![name] = "partial"]
      [] OTHER -> files

WriteStepSwallowsError(here, name, next) ==
    /\ pcA = here
    /\ \E w \in WriteOutcomes :
        /\ files' = Written(name, w)
        /\ writes' = Append(writes, name)
        /\ pcA' = next
    /\ UNCHANGED <<callsA, localsA, credentials, resultA, reportA, raisedA,
                   bannerA, varsB>>

\* A raw-response write followed by the next step.
WriteStep(here, name, next) ==
    /\ pcA = here
    /\ \E w \in WriteOutcomes :
        /\ files' = Written(name, w)
        /\ writes' = Append(writes, name)
        /\ IF w = "ok"
             THEN /\ pcA' = next
                  /\ UNCHANGED <<resultA, reportA>>
             ELSE Handler("Exception")
    /\ UNCHANGED <<callsA, localsA, credentials, raisedA, bannerA, varsB>>

\* __main__ up to the call of create_m2m_pool
MainA ==
    /\ pcA = "main"
    /\ pcA' = "client_init"
    /\ UNCHANGED <<callsA, files, writes, localsA, credentials, resultA,
                   raisedA, reportA, bannerA, varsB>>

\* boto3.client('cognito-idp', region_name=REGION), before the try
ClientInitA ==
    /\ pcA = "client_init"
    /\ \E ok \in BOOLEAN :
        IF ok THEN /\ pcA' = "create_user_pool"
                   /\ UNCHANGED raisedA
              ELSE /\ pcA' = "exit"
                   /\ raisedA' = "Exception"
    /\ UNCHANGED <<callsA, files, writes, localsA, credentials, resultA,
                   reportA, bannerA, varsB>>

\* Step 1: create_user_pool
Step1CreateUserPool ==
    /\ pcA = "create_user_pool"
    /\ \E o \in Outcomes, id \in PoolIds :
        /\ callsA' = Append(callsA, Call("create_user_pool", None, o))
        /\ IF o = "ok"
             THEN /\ localsA' = [localsA EXCEPT !.pool_id = id]
                  /\ pcA' = "write_pool"
                  /\ UNCHANGED <<resultA, reportA>>
             ELSE /\ Handler(o)
                  /\ UNCHANGED localsA
    /\ UNCHANGED <<files, writes, credentials, raisedA, bannerA, varsB>>

WritePoolJson == WriteStep("write_pool", "pool.json", "create_resource_server")

\* Step 2: create_resource_server
Step2CreateResourceServer ==
    /\ pcA = "create_resource_server"
    /\ \E o \in Outcomes :
        /\ callsA' = Append(callsA, Call("create_resource_server", None, o))
        /\ IF o = "ok"
             THEN /\ localsA' = [localsA EXCEPT
                                   !.resource_server_id = RESOURCE_SERVER_IDENTIFIER]
                  /\ pcA' = "write_resource_server"
                  /\ UNCHANGED <<resultA, reportA>>
             ELSE /\ Handler(o)
                  /\ UNCHANGED localsA
    /\ UNCHANGED <<files, writes, credentials, raisedA, bannerA, varsB>>

WriteResourceServerJson ==
    WriteStep("write_resource_server", "resource_server.json", "create_client")

\* Step 3: create_user_pool_client
Step3CreateClient ==
    /\ pcA = "create_client"
    /\ \E o \in Outcomes, id \in ClientIds, sec \in ClientSecrets :
        /\ callsA' = Append(callsA, Call("create_user_pool_client", None, o))
        /\ IF o = "ok"
             THEN /\ localsA' = [localsA EXCEPT !.client_id = id,
                                                !.client_secret = sec]
                  /\ pcA' = "write_client"
                  /\ UNCHANGED <<resultA, reportA>>
             ELSE /\ Handler(o)
                  /\ UNCHANGED localsA
    /\ UNCHANGED <<files, writes, credentials, raisedA, bannerA, varsB>>

WriteClientJson == WriteStep("write_client", "m2m_client.json", "create_domain")

DomainToleratedNever(code) == FALSE

DomainToleratedAny(code) == TRUE

\* The inner except of step 4 continues on this code and re-raises any other.
DomainTolerated(code) == code = "InvalidParameterException"

\* Step 4: create_user_pool_domain
Step4CreateDomain ==
    /\ pcA = "create_domain"
    /\ \E t \in Timestamps, o \in Outcomes :
        /\ localsA' = [localsA EXCEPT !.domain_name = DomainName(t)]
        /\ callsA' = Append(callsA, Call("create_user_pool_domain", None, o))
        /\ IF o = "ok" \/ (o \in ErrorCodes /\ DomainTolerated(o))
             THEN /\ pcA' = "create_user"
                  /\ UNCHANGED <<resultA, reportA>>
             ELSE Handler(o)
    /\ UNCHANGED <<files, writes, credentials, raisedA, bannerA, varsB>>

UserToleratedNever(code) == FALSE

\* The inner except of step 5 continues on this code and re-raises any other.
UserTolerated(code) == code = "UsernameExistsException"

AfterCreateUserSkipsPassword(o) == "write_credentials"

\* Step 5, first call: admin_create_user; a tolerated failure leaves the try
\* block, so admin_set_user_password is skipped.
AfterCreateUser(o) == IF o = "ok" THEN "set_password" ELSE "write_credentials"

Step5CreateUser ==
    /\ pcA = "create_user"
    /\ \E o \in Outcomes :
        /\ callsA' = Append(callsA, Call("admin_create_user", "m2m-test-user", o))
        /\ IF o = "ok" \/ (o \in ErrorCodes /\ UserTolerated(o))
             THEN /\ pcA' = AfterCreateUser(o)
                  /\ UNCHANGED <<resultA, reportA>>
             ELSE Handler(o)
    /\ UNCHANGED <<files, writes, localsA, credentials, raisedA, bannerA, varsB>>

\* Step 5, second call: admin_set_user_password, in the same try block
Step5SetPassword ==
    /\ pcA = "set_password"
    /\ \E o \in Outcomes :
        /\ callsA' = Append(callsA,
                            Call("admin_set_user_password", "m2m-test-user", o))
        /\ IF o = "ok" \/ (o \in ErrorCodes /\ UserTolerated(o))
             THEN /\ pcA' = "write_credentials"
                  /\ UNCHANGED <<resultA, reportA>>
             ELSE Handler(o)
    /\ UNCHANGED <<files, writes, localsA, credentials, raisedA, bannerA, varsB>>

\* Step 7 and the return statement
Step7WriteCredentials ==
    /\ pcA = "write_credentials"
    /\ \E w \in WriteOutcomes :
        /\ files' = Written("m2m_credentials.json", w)
        /\ writes' = Append(writes, "m2m_credentials.json")
        /\ IF w = "ok"
             THEN /\ credentials' =
                        [userPoolId |-> localsA.pool_id,
                         resourceServerId |-> localsA.resource_server_id,
                         clientId |-> localsA.client_id,
                         clientSecret |-> localsA.client_secret,
                         region |-> REGION,
                         scopes |-> Scopes]
                  /\ resultA' =
                        [pool_id |-> localsA.pool_id,
                         client_id |-> localsA.client_id,
                         client_secret |-> localsA.client_secret,
                         domain_name |-> localsA.domain_name,
                         resource_server_id |-> localsA.resource_server_id]
                  /\ pcA' = "returned"
                  /\ UNCHANGED reportA
             ELSE /\ Handler("Exception")
                  /\ UNCHANGED credentials
    /\ UNCHANGED <<callsA, localsA, raisedA, bannerA, varsB>>

\* __main__ after create_m2m_pool returned: `if result:` picks the banner
BannerA ==
    /\ pcA = "returned"
    /\ bannerA' = IF resultA # Absent THEN "Setup completed successfully!"
                                    ELSE "Setup failed!"
    /\ pcA' = "exit"
    /\ UNCHANGED <<callsA, files, writes, localsA, credentials, resultA,
                   raisedA, reportA, varsB>>

NextA ==
    \/ MainA
    \/ ClientInitA
    \/ Step1CreateUserPool
    \/ WritePoolJson
    \/ Step2CreateResourceServer
    \/ WriteResourceServerJson
    \/ Step3CreateClient
    \/ WriteClientJson
    \/ Step4CreateDomain
    \/ Step5CreateUser
    \/ Step5SetPassword
    \/ Step7WriteCredentials
    \/ BannerA

SpecA == InitA /\ [][NextA]_vars

\* ------------------------------------------------ user_cognito_setup.py

\* Values os.environ.get('AWS_REGION') may give: unset, empty, a region.
EnvValues == {None, "", "eu-west-1"}

\* boto3.Session().region_name: raises, no region configured, empty, a region.
SessionValues == {"raise", None, "", "ap-south-1"}

\* Python's `not region`
Falsy(x) == x \in {None, ""}

get_aws_region_session_first(e, s) ==
    LET r1 == IF s = "raise" THEN None ELSE s
        r2 == IF Falsy(r1) THEN e ELSE r1
    IN IF Falsy(r2) THEN <<"us-east-1", TRUE>> ELSE <<r2, FALSE>>

\* get_aws_region: <<region returned, warning printed>>
get_aws_region(e, s) ==
    LET r1 == e
        r2 == IF Falsy(r1) THEN (IF s = "raise" THEN r1 ELSE s) ELSE r1
    IN IF Falsy(r2) THEN <<"us-east-1", TRUE>> ELSE <<r2, FALSE>>

TokenValues == {"tokA", "tokB"}

\* m2m_cognito_setup.py is not running.
IdleA ==
    /\ pcA = "exit" /\ callsA = <<>> /\ files = [n \in {} |-> "absent"]
    /\ writes = <<>> /\ localsA = <<>> /\ credentials = NoDocument
    /\ resultA = NotReturned /\ raisedA = None /\ reportA = <<>>
    /\ bannerA = None

InitB ==
    /\ IdleA
    /\ invocation \in {"script", "call"}
    /\ env \in EnvValues
    /\ session \in SessionValues
    /\ region = Unset
    /\ warned = FALSE
    /\ pcB = "start"
    /\ callsB = <<>>
    /\ localsB = [pool_id |-> Unset, client_id |-> Unset,
                  access_token_1 |-> Unset, access_token_2 |-> Unset]
    /\ resultB = NotReturned
    /\ raisedB = None
    /\ logB = <<>>

\* __main__: `config = main()`; the module defines no main
ScriptMainB ==
    /\ pcB = "start"
    /\ invocation = "script"
    /\ raisedB' = "NameError"
    /\ pcB' = "exit"
    /\ UNCHANGED <<invocation, env, session, region, warned, callsB, localsB,
                   resultB, logB, varsA>>

\* create_spa_pool, first statement: region = get_aws_region()
ResolveRegionB ==
    /\ pcB = "start"
    /\ invocation = "call"
    /\ region' = get_aws_region(env, session)[1]
    /\ warned' = get_aws_region(env, session)[2]
    /\ pcB' = "client_init"
    /\ UNCHANGED <<invocation, env, session, callsB, localsB, resultB,
                   raisedB, logB, varsA>>

\* boto3.client('cognito-idp', region_name=region), before the try
ClientInitB ==
    /\ pcB = "client_init"
    /\ \E ok \in BOOLEAN :
        IF ok THEN /\ pcB' = "create_user_pool"
                   /\ UNCHANGED raisedB
              ELSE /\ pcB' = "exit"
                   /\ raisedB' = "Exception"
    /\ UNCHANGED <<invocation, env, session, region, warned, callsB, localsB,
                   resultB, logB, varsA>>

PropagateSwallowed(what, o) ==
    /\ logB' = Append(logB, what)
    /\ raisedB' = raisedB
    /\ pcB' = CASE pcB = "create_user_pool" -> "create_app_client"
                [] pcB = "create_app_client" -> "create_user_1"
                [] pcB = "create_user_1" -> "authenticate_user_1"
                [] pcB = "authenticate_user_1" -> "create_user_2"
                [] pcB = "create_user_2" -> "authenticate_user_2"
                [] OTHER -> "return"

\* A failed call inside one of the helpers: `except ClientError` of the helper
\* prints and re-raises, `except Exception` of create_spa_pool prints and
\* re-raises; any other exception only meets the second.
Propagate(what, o) ==
    /\ logB' = (IF o \in ErrorCodes THEN Append(logB, what) ELSE logB)
                   \o <<"Setup failed">>
    /\ raisedB' = o
    /\ pcB' = "exit"

\* create_user_pool(cognito_client)
create_user_pool ==
    /\ pcB = "create_user_pool"
    /\ \E o \in Outcomes, id \in PoolIds :
        /\ callsB' = Append(callsB, Call("create_user_pool", None, o))
        /\ IF o = "ok"
             THEN /\ localsB' = [localsB EXCEPT !.pool_id = id]
                  /\ pcB' = "create_app_client"
                  /\ UNCHANGED <<logB, raisedB>>
             ELSE /\ Propagate("Error creating user pool", o)
                  /\ UNCHANGED localsB
    /\ UNCHANGED <<invocation, env, session, region, warned, resultB, varsA>>

\* create_app_client(cognito_client, pool_id)
create_app_client ==
    /\ pcB = "create_app_client"
    /\ \E o \in Outcomes, id \in ClientIds :
        /\ callsB' = Append(callsB, Call("create_user_pool_client", None, o))
        /\ IF o = "ok"
             THEN /\ localsB' = [localsB EXCEPT !.client_id = id]
                  /\ pcB' = "create_user_1"
                  /\ UNCHANGED <<logB, raisedB>>
             ELSE /\ Propagate("Error creating app client", o)
                  /\ UNCHANGED localsB
    /\ UNCHANGED <<invocation, env, session, region, warned, resultB, varsA>>

UserAt(pc) == IF pc \in {"create_user_1", "authenticate_user_1"}
                THEN "testuser1" ELSE "testuser2"

\* Where create_spa_pool goes after create_user / authenticate_user returned.
AfterCreate(pc) == IF pc = "create_user_1" THEN "authenticate_user_1"
                                           ELSE "authenticate_user_2"
AfterAuthenticate(pc) == IF pc = "authenticate_user_1" THEN "create_user_2"
                                                       ELSE "return"

CreateUserCallsBoth(u, o1, o2) ==
    <<Call("admin_create_user", u, o1), Call("admin_set_user_password", u, o2)>>

\* The calls create_user issues for the outcomes o1 (admin_create_user) and
\* o2 (admin_set_user_password): the second only after the first succeeded.
CreateUserCalls(u, o1, o2) ==
    IF o1 = "ok" THEN <<Call("admin_create_user", u, o1),
                        Call("admin_set_user_password", u, o2)>>
                 ELSE <<Call("admin_create_user", u, o1)>>

\* create_user(cognito_client, pool_id, username)
create_user ==
    /\ pcB \in {"create_user_1", "create_user_2"}
    /\ \E o1 \in Outcomes, o2 \in Outcomes :
        LET cs == CreateUserCalls(UserAt(pcB), o1, o2)
            last == cs[Len(cs)].out
        IN /\ callsB' = callsB \o cs
           /\ IF last = "ok"
                THEN /\ pcB' = AfterCreate(pcB)
                     /\ UNCHANGED <<logB, raisedB>>
                ELSE Propagate("Error creating user", last)
    /\ UNCHANGED <<invocation, env, session, region, warned, localsB, resultB,
                   varsA>>

\* authenticate_user(cognito_client, client_id, username)
authenticate_user ==
    /\ pcB \in {"authenticate_user_1", "authenticate_user_2"}
    /\ \E o \in Outcomes, tok \in TokenValues :
        /\ callsB' = Append(callsB, Call("initiate_auth", UserAt(pcB), o))
        /\ IF o = "ok"
             THEN /\ localsB' = IF pcB = "authenticate_user_1"
                                  THEN [localsB EXCEPT !.access_token_1 = tok]
                                  ELSE [localsB EXCEPT !.access_token_2 = tok]
                  /\ pcB' = AfterAuthenticate(pcB)
                  /\ UNCHANGED <<logB, raisedB>>
             ELSE /\ Propagate("Error authenticating user", o)
                  /\ UNCHANGED localsB
    /\ UNCHANGED <<invocation, env, session, region, warned, resultB, varsA>>

\* f"https://cognito-idp.{region}.amazonaws.com/{pool_id}/.well-known/openid-configuration"
DiscoveryUrl(r, p) == <<"https://cognito-idp.", r, ".amazonaws.com/", p,
                        "/.well-known/openid-configuration">>

\* create_spa_pool: the discovery URL and the return statement
ReturnB ==
    /\ pcB = "return"
    /\ resultB' = [pool_id |-> localsB.pool_id,
                   client_id |-> localsB.client_id,
                   discovery_url |-> DiscoveryUrl(region, localsB.pool_id),
                   region |-> region,
                   user1 |-> [username |-> "testuser1",
                              password |-> "MyPassword123!"],
                   user2 |-> [username |-> "testuser2",
                              password |-> "MyPassword123!"],
                   access_tokens |-> [testuser1 |-> localsB.access_token_1,
                                      testuser2 |-> localsB.access_token_2]]
    /\ pcB' = "exit"
    /\ UNCHANGED <<invocation, env, session, region, warned, callsB, localsB,
                   raisedB, logB, varsA>>

NextB ==
    \/ ScriptMainB
    \/ ResolveRegionB
    \/ ClientInitB
    \/ create_user_pool
    \/ create_app_client
    \/ create_user
    \/ authenticate_user
    \/ ReturnB

SpecB == InitB /\ [][NextB]_vars

\* ------------------------------------------------------------- properties

\* Index of the first call of operation op in cs, 0 if there is none.
FirstCall(cs, op) ==
    IF \E i \in 1..Len(cs) : cs[i].op = op
      THEN CHOOSE i \in 1..Len(cs) :
               cs[i].op = op /\ \A j \in 1..(i - 1) : cs[j].op # op
      ELSE 0

Issued(cs, op) == FirstCall(cs, op) # 0

\* Outcome of the first call of op in cs ("none" when it was not issued).
OutcomeOf(cs, op) == IF Issued(cs, op) THEN cs[FirstCall(cs, op)].out ELSE "none"

WrittenNames == {writes[i] : i \in 1..Len(writes)}

FinishedA == pcA \in {"returned", "exit"}

ReturnedRecordA == resultA # NotReturned /\ resultA # Absent

\* The test-user step ended without an untolerated error.
UserStepPassed ==
    \/ OutcomeOf(callsA, "admin_create_user") = "UsernameExistsException"
    \/ /\ OutcomeOf(callsA, "admin_create_user") = "ok"
       /\ OutcomeOf(callsA, "admin_set_user_password")
              \in {"ok", "UsernameExistsException"}

\* C1: create_m2m_pool never raises to its caller: whatever fails, the script
\* ends with no exception, with the error reported, an absent result and the
\* failure banner.
C1_NeverRaises ==
    /\ raisedA = None
    /\ pcA = "exit" =>
          /\ resultA # NotReturned
          /\ resultA = Absent => reportA # <<>> /\ bannerA = "Setup failed!"

\* C2: when create_user_pool_domain fails with InvalidParameterException the
\* run goes on: admin_create_user is issued after it, and if the user step
\* passes and m2m_credentials.json is written, the returned record carries
\* the generated domain name.
C2_DomainToleratedContinues ==
    (FinishedA /\ OutcomeOf(callsA, "create_user_pool_domain")
                      = "InvalidParameterException") =>
        /\ FirstCall(callsA, "admin_create_user")
               > FirstCall(callsA, "create_user_pool_domain")
        /\ (UserStepPassed /\ files["m2m_credentials.json"] = "new") =>
              /\ ReturnedRecordA
              /\ resultA.domain_name \in {DomainName(t) : t \in Timestamps}
              /\ resultA.domain_name = localsA.domain_name

C2_Witness ==
    /\ pcA = "exit"
    /\ OutcomeOf(callsA, "create_user_pool_domain") = "InvalidParameterException"
    /\ ReturnedRecordA
    /\ bannerA = "Setup completed successfully!"

\* C3: when create_user_pool_domain fails with a ClientError of any other code
\* the run aborts: no admin_create_user, no admin_set_user_password, no write
\* of m2m_credentials.json, and None is returned.
C3_DomainOtherErrorAborts ==
    (OutcomeOf(callsA, "create_user_pool_domain")
         \in ErrorCodes \ {"InvalidParameterException"}) =>
        /\ ~Issued(callsA, "admin_create_user")
        /\ ~Issued(callsA, "admin_set_user_password")
        /\ "m2m_credentials.json" \notin WrittenNames
        /\ credentials = NoDocument
        /\ FinishedA
        /\ resultA = Absent

C3_Witness ==
    /\ pcA = "exit"
    /\ OutcomeOf(callsA, "create_user_pool_domain") = "LimitExceededException"
    /\ resultA = Absent

\* A call of the test-user step failed with a ClientError other than
\* UsernameExistsException.
UserStepOtherError ==
    \E op \in {"admin_create_user", "admin_set_user_password"} :
        OutcomeOf(callsA, op) \in ErrorCodes \ {"UsernameExistsException"}

C4_OtherErrorAborts ==
    UserStepOtherError =>
        /\ FinishedA
        /\ resultA = Absent
        /\ "m2m_credentials.json" \notin WrittenNames

\* C4 as stated: when admin_create_user fails with UsernameExistsException the
\* run writes m2m_credentials.json and returns a record; any other ClientError
\* of the test-user step aborts with None and no credentials document.
C4_Original ==
    /\ (FinishedA /\ OutcomeOf(callsA, "admin_create_user")
                         = "UsernameExistsException") =>
           /\ "m2m_credentials.json" \in WrittenNames
           /\ ReturnedRecordA
    /\ C4_OtherErrorAborts

\* C4 as amended: when admin_create_user fails with UsernameExistsException the
\* run reaches the write of m2m_credentials.json and, if that write succeeds,
\* returns a record (if the write fails it returns None); any other
\* ClientError of the test-user step aborts with None and no credentials
\* document.
C4_UserToleratedReachesWrite ==
    /\ (FinishedA /\ OutcomeOf(callsA, "admin_create_user")
                         = "UsernameExistsException") =>
           /\ "m2m_credentials.json" \in WrittenNames
           /\ ReturnedRecordA <=> files["m2m_credentials.json"] = "new"
    /\ C4_OtherErrorAborts

C4_Witness ==
    /\ pcA = "exit"
    /\ OutcomeOf(callsA, "admin_create_user") = "UsernameExistsException"
    /\ ReturnedRecordA
    /\ credentials # NoDocument

\* C8 as stated: every run of create_m2m_pool that returns a record has issued
\* admin_set_user_password after admin_create_user, also when the user
\* already existed.
C8_Original ==
    ReturnedRecordA =>
        /\ Issued(callsA, "admin_create_user")
        /\ FirstCall(callsA, "admin_set_user_password")
               > FirstCall(callsA, "admin_create_user")

\* C8 as amended: every run of create_m2m_pool that returns a record has
\* issued admin_create_user; if that call succeeded, admin_set_user_password
\* was issued after it; if it failed with UsernameExistsException and was
\* tolerated, admin_set_user_password was not issued at all.
C8_PasswordSetOnlyAfterCreation ==
    ReturnedRecordA =>
        /\ Issued(callsA, "admin_create_user")
        /\ OutcomeOf(callsA, "admin_create_user") = "ok" =>
               FirstCall(callsA, "admin_set_user_password")
                   > FirstCall(callsA, "admin_create_user")
        /\ OutcomeOf(callsA, "admin_create_user") # "ok" =>
               /\ OutcomeOf(callsA, "admin_create_user")
                      = "UsernameExistsException"
               /\ ~Issued(callsA, "admin_set_user_password")

C8_Witness ==
    /\ ReturnedRecordA
    /\ OutcomeOf(callsA, "admin_create_user") = "UsernameExistsException"
    /\ pcA = "exit"

\* Position of a file in the order of the script's writes.
FileIndex(name) == CHOOSE i \in 1..4 : FileNames[i] = name

\* The provider call whose raw response a file holds.
CallBehind(name) ==
    CASE name = "pool.json" -> "create_user_pool"
      [] name = "resource_server.json" -> "create_resource_server"
      [] name = "m2m_client.json" -> "create_user_pool_client"
      [] OTHER -> "none"

\* C10: the files are written in the order pool.json, resource_server.json,
\* m2m_client.json, m2m_credentials.json, each at most once and each raw file
\* only after its own call succeeded; m2m_credentials.json only after the
\* three raw files were written and the domain and user steps passed; a
\* record is returned only after m2m_credentials.json was written; a write
\* that succeeded is still in place when the run ends or aborts.
C10_FileOrder ==
    /\ Len(writes) <= 4
    /\ \A i \in 1..Len(writes) :
          /\ writes[i] = FileNames[i]
          /\ i < 4 => OutcomeOf(callsA, CallBehind(writes[i])) = "ok"
          /\ i < Len(writes) => files[writes[i]] = "new"
          /\ (i = Len(writes) /\ files[writes[i]] # "new") =>
                 FinishedA /\ resultA = Absent
    /\ "m2m_credentials.json" \in WrittenNames =>
          /\ \A i \in 1..3 : files[FileNames[i]] = "new"
          /\ OutcomeOf(callsA, "create_user_pool_domain")
                 \in {"ok", "InvalidParameterException"}
          /\ UserStepPassed
    /\ ReturnedRecordA =>
          /\ files["m2m_credentials.json"] = "new"
          /\ credentials # NoDocument
    /\ credentials # NoDocument => "m2m_credentials.json" \in WrittenNames

C10_Witness ==
    /\ pcA = "exit"
    /\ resultA = Absent
    /\ writes = <<"pool.json", "resource_server.json", "m2m_client.json">>
    /\ files["pool.json"] = "new"
    /\ files["resource_server.json"] = "new"
    /\ files["m2m_client.json"] = "new"
    /\ OutcomeOf(callsA, "admin_create_user") = "LimitExceededException"

FailedCallB == \E i \in 1..Len(callsB) : callsB[i].out # "ok"

ReturnedRecordB == resultB # NotReturned

\* The provider calls of create_spa_pool, in program order.
ExpectedCallsB ==
    << <<"create_user_pool", None>>, <<"create_user_pool_client", None>>,
       <<"admin_create_user", "testuser1">>,
       <<"admin_set_user_password", "testuser1">>,
       <<"initiate_auth", "testuser1">>,
       <<"admin_create_user", "testuser2">>,
       <<"admin_set_user_password", "testuser2">>,
       <<"initiate_auth", "testuser2">> >>

\* C5: create_spa_pool returns its record only after all eight calls
\* succeeded; any failed call, such as admin_create_user for testuser2 after
\* testuser1's token was obtained, makes it raise and return nothing.
C5_RecordOnlyAfterAllSteps ==
    /\ ReturnedRecordB =>
          /\ Len(callsB) = Len(ExpectedCallsB)
          /\ ~FailedCallB
          /\ raisedB = None
          /\ resultB.access_tokens.testuser1 = localsB.access_token_1
          /\ resultB.access_tokens.testuser2 \in TokenValues
    /\ FailedCallB =>
          /\ ~ReturnedRecordB
          /\ raisedB # None
          /\ pcB = "exit"

C5_Witness ==
    /\ pcB = "exit"
    /\ Len(callsB) = 6
    /\ callsB[6].op = "admin_create_user"
    /\ callsB[6].user = "testuser2"
    /\ callsB[6].out # "ok"
    /\ localsB.access_token_1 \in TokenValues
    /\ ~ReturnedRecordB

\* C6: get_aws_region gives AWS_REGION when it is set and not empty, else the
\* session's region when there is one, else us-east-1; it warns on the default
\* path only, and a session that raises leads to the default.
C6_RegionResolution ==
    (invocation = "call" /\ pcB # "start") =>
        IF env \notin {None, ""}
          THEN region = env /\ ~warned
          ELSE IF session \notin {"raise", None, ""}
                 THEN region = session /\ ~warned
                 ELSE region = "us-east-1" /\ warned

C6_Witness ==
    /\ invocation = "call"
    /\ pcB = "client_init"
    /\ env = "eu-west-1"
    /\ session = "ap-south-1"
    /\ region = "eu-west-1"
    /\ ~warned

\* C7: run as a script, user_cognito_setup.py enters create_spa_pool, ends
\* without an exception when every step succeeds and with an exception only
\* when a provisioning step failed.
C7_ScriptRunsProvisioning ==
    (invocation = "script" /\ pcB = "exit") =>
        /\ region # Unset
        /\ raisedB = None <=> ReturnedRecordB
        /\ raisedB # None => (FailedCallB \/ Len(callsB) = 0)

\* C9: the calls of create_spa_pool are a prefix of the program order, each
\* issued only after the previous one succeeded, and nothing is issued after
\* a failed call.
C9_CallOrder ==
    /\ Len(callsB) <= Len(ExpectedCallsB)
    /\ \A i \in 1..Len(callsB) :
          /\ callsB[i].op = ExpectedCallsB[i][1]
          /\ callsB[i].user = ExpectedCallsB[i][2]
          /\ i < Len(callsB) => callsB[i].out = "ok"
          /\ callsB[i].out # "ok" => pcB = "exit"
    /\ \A i \in 1..Len(callsB) :
          callsB[i].op = "initiate_auth" =>
              \E j \in 1..(i - 1) :
                  /\ callsB[j].op = "admin_set_user_password"
                  /\ callsB[j].user = callsB[i].user
                  /\ callsB[j].out = "ok"

C9_Witness ==
    /\ pcB = "exit"
    /\ Len(callsB) = 4
    /\ callsB[4].op = "admin_set_user_password"
    /\ callsB[4].out = "UsernameExistsException"
    /\ raisedB = "UsernameExistsException"

====
